---- MODULE Spec2Model ----
(***************************************************************************)
(* Model of the Intimex Dak Mil assistant backend (server.js and its       *)
(* OpenAI-based sibling): the /chat request handler, the dataset caches,   *)
(* the language-model admission gate and retry loop, the export generator, *)
(* and the text functions the handler applies to a message.                *)
(*                                                                         *)
(* A JavaScript string is a sequence of characters, each character a       *)
(* one-element token.  Characters outside ASCII are named tokens:          *)
(*   "a_circ" U+00E2, "A_circ" U+00C2, "u_horn_dot" U+1EF1,                *)
(*   "o_grave" U+00F2, "d_stroke" U+0111, "D_stroke" U+0110,               *)
(* and the combining marks "~circ" U+0302, "~horn" U+031B, "~dot" U+0323,  *)
(* "~grave" U+0300.                                                        *)
(***************************************************************************)
EXTENDS Integers, Sequences, FiniteSets, TLC

(***************************************************************************)
(* Characters and strings                                                  *)
(***************************************************************************)
LOWER == <<"a", "b", "c", "d", "e", "f", "g", "h", "i", "j", "k", "l", "m", "n", "o", "p", "q", "r", "s", "t", "u", "v", "w", "x", "y", "z">>

UPPER == <<"A", "B", "C", "D", "E", "F", "G", "H", "I", "J", "K", "L", "M", "N", "O", "P", "Q", "R", "S", "T", "U", "V", "W", "X", "Y", "Z">>

DIGITS == <<"0", "1", "2", "3", "4", "5", "6", "7", "8", "9">>

Range(f) == {f[i] : i \in DOMAIN f}

\* the combining marks of the block U+0300..U+036F that the alphabet holds
CombiningMarks == {"~circ", "~horn", "~dot", "~grave"}

\* \s of a JavaScript regular expression, within the alphabet
Whitespace == {" ", "\t", "\n"}

\* \w of a JavaScript regular expression: [A-Za-z0-9_]
WordChars == Range(LOWER) \cup Range(UPPER) \cup Range(DIGITS) \cup {"_"}

\* String.prototype.toLowerCase, one character
lowerChar(c) ==
  IF c \in Range(UPPER) THEN LOWER[CHOOSE i \in DOMAIN UPPER : UPPER[i] = c]
  ELSE IF c = "A_circ" THEN "a_circ"
  ELSE IF c = "D_stroke" THEN "d_stroke"
  ELSE c

toLowerCase(s) == [i \in 1..Len(s) |-> lowerChar(s[i])]

\* String.prototype.normalize("NFD"), one character: canonical decomposition
nfdChar(c) ==
  IF c = "a_circ" THEN <<"a", "~circ">>
  ELSE IF c = "A_circ" THEN <<"A", "~circ">>
  ELSE IF c = "u_horn_dot" THEN <<"u", "~horn", "~dot">>
  ELSE IF c = "o_grave" THEN <<"o", "~grave">>
  ELSE <<c>>

RECURSIVE normalizeNFD(_)
normalizeNFD(s) ==
  IF s = <<>> THEN <<>> ELSE nfdChar(Head(s)) \o normalizeNFD(Tail(s))

\* s.includes(k)
Includes(s, k) ==
  \E i \in 0..(Len(s) - Len(k)) : SubSeq(s, i + 1, i + Len(k)) = k

\* [...].join(" ")
RECURSIVE JoinSpace(_)
JoinSpace(ss) ==
  IF ss = <<>> THEN <<>>
  ELSE IF Len(ss) = 1 THEN ss[1]
  ELSE ss[1] \o <<" ">> \o JoinSpace(Tail(ss))

\* s.split(/\s+/): the pieces between maximal runs of whitespace; a leading
\* or trailing run leaves an empty first or last piece
RECURSIVE SplitFrom(_, _, _)
SplitFrom(s, i, cur) ==
  IF i > Len(s) THEN <<cur>>
  ELSE IF s[i] \in Whitespace
       THEN IF i > 1 /\ s[i - 1] \in Whitespace
            THEN SplitFrom(s, i + 1, cur)
            ELSE <<cur>> \o SplitFrom(s, i + 1, <<>>)
       ELSE SplitFrom(s, i + 1, Append(cur, s[i]))

SplitWhitespace(s) == SplitFrom(s, 1, <<>>)

\* xs.slice(0, n)
Slice(xs, n) == SubSeq(xs, 1, IF Len(xs) < n THEN Len(xs) ELSE n)

(***************************************************************************)
(* Literals of the source                                                  *)
(***************************************************************************)
s_nhan_su == <<"n", "h", "a", "n", " ", "s", "u">>
s_nhan_vien == <<"n", "h", "a", "n", " ", "v", "i", "e", "n">>
s_quy_trinh == <<"q", "u", "y", " ", "t", "r", "i", "n", "h">>
s_sop == <<"s", "o", "p">>
s_doanh_thu == <<"d", "o", "a", "n", "h", " ", "t", "h", "u">>
s_kpi == <<"k", "p", "i">>
s_bao_cao == <<"b", "a", "o", " ", "c", "a", "o">>
s_truong_phong == <<"t", "r", "u", "o", "n", "g", " ", "p", "h", "o", "n", "g">>
s_truong == <<"t", "r", "u", "o", "n", "g">>
s_giam_doc == <<"g", "i", "a", "m", " ", "d", "o", "c">>
s_pho_giam_doc == <<"p", "h", "o", " ", "g", "i", "a", "m", " ", "d", "o", "c">>
s_truong_bp == <<"t", "r", "u", "o", "n", "g", " ", "b", "p">>
s_phong_ == <<"p", "h", "o", "n", "g", " ">>
s_phong == <<"p", "h", "o", "n", "g">>
s_toan_bo_nhan_su == <<"t", "o", "a", "n", " ", "b", "o", " ", "n", "h", "a", "n", " ", "s", "u">>
s_toan_bo_nhan_vien == <<"t", "o", "a", "n", " ", "b", "o", " ", "n", "h", "a", "n", " ", "v", "i", "e", "n">>
s_tat_ca_nhan_su == <<"t", "a", "t", " ", "c", "a", " ", "n", "h", "a", "n", " ", "s", "u">>
s_tat_ca_nhan_vien == <<"t", "a", "t", " ", "c", "a", " ", "n", "h", "a", "n", " ", "v", "i", "e", "n">>
s_tong_danh_sach_nhan_su == <<"t", "o", "n", "g", " ", "d", "a", "n", "h", " ", "s", "a", "c", "h", " ", "n", "h", "a", "n", " ", "s", "u">>
s_tong_danh_sach_nhan_vien == <<"t", "o", "n", "g", " ", "d", "a", "n", "h", " ", "s", "a", "c", "h", " ", "n", "h", "a", "n", " ", "v", "i", "e", "n">>
s_danh_sach_nhan_su == <<"d", "a", "n", "h", " ", "s", "a", "c", "h", " ", "n", "h", "a", "n", " ", "s", "u">>
s_danh_sach_nhan_vien == <<"d", "a", "n", "h", " ", "s", "a", "c", "h", " ", "n", "h", "a", "n", " ", "v", "i", "e", "n">>
s_pho == <<"p", "h", "o">>
s_dang_lam == <<"d", "a", "n", "g", " ", "l", "a", "m">>
s_nghi == <<"n", "g", "h", "i">>
s_dang_lam_viec == <<"d", "a", "n", "g", " ", "l", "a", "m", " ", "v", "i", "e", "c">>
s_da_nghi == <<"d", "a", " ", "n", "g", "h", "i">>
s_nghi_viec == <<"n", "g", "h", "i", " ", "v", "i", "e", "c">>
s_anh == <<"a", "n", "h">>
s_chi == <<"c", "h", "i">>
s_ong == <<"o", "n", "g">>
s_ba == <<"b", "a">>

KEYWORDS_1 ==
  << <<"g", "i", "o", "i", " ", "t", "h", "i", "e", "u", " ", "c", "o", "n", "g", " ", "t", "y">>,
     <<"i", "n", "t", "i", "m", "e", "x", " ", "d", "a", "k", " ", "m", "i", "l">>,
     <<"i", "n", "t", "i", "m", "e", "x", " ", "d", "a", "k", "m", "i", "l">>,
     <<"l", "i", "c", "h", " ", "s", "u", " ", "c", "o", "n", "g", " ", "t", "y">>,
     <<"t", "a", "m", " ", "n", "h", "i", "n">>,
     <<"s", "u", " ", "m", "e", "n", "h">>,
     <<"g", "i", "a", " ", "t", "r", "i", " ", "c", "o", "t", " ", "l", "o", "i">>,
     <<"l", "i", "n", "h", " ", "v", "u", "c", " ", "h", "o", "a", "t", " ", "d", "o", "n", "g">>,
     <<"t", "h", "o", "n", "g", " ", "t", "i", "n", " ", "c", "o", "n", "g", " ", "t", "y">>,
     <<"d", "i", "a", " ", "c", "h", "i", " ", "c", "o", "n", "g", " ", "t", "y">> >>
KEYWORDS_2 ==
  << <<"n", "h", "a", "n", " ", "s", "u">>,
     <<"n", "h", "a", "n", " ", "v", "i", "e", "n">>,
     <<"c", "a", "n", " ", "b", "o">>,
     <<"m", "a", " ", "n", "v">>,
     <<"m", "a", " ", "n", "h", "a", "n", " ", "v", "i", "e", "n">>,
     <<"p", "h", "o", "n", "g", " ", "b", "a", "n">>,
     <<"b", "o", " ", "p", "h", "a", "n">>,
     <<"p", "h", "o", "n", "g", " ", "k", "e", " ", "t", "o", "a", "n">>,
     <<"p", "h", "o", "n", "g", " ", "k", "i", "n", "h", " ", "d", "o", "a", "n", "h">>,
     <<"p", "h", "o", "n", "g", " ", "h", "a", "n", "h", " ", "c", "h", "i", "n", "h">>,
     <<"c", "h", "u", "c", " ", "v", "u">>,
     <<"t", "u", "y", "e", "n", " ", "d", "u", "n", "g">>,
     <<"h", "o", " ", "s", "o", " ", "n", "h", "a", "n", " ", "s", "u">>,
     <<"s", "o", " ", "l", "u", "o", "n", "g", " ", "n", "h", "a", "n", " ", "v", "i", "e", "n">>,
     <<"n", "g", "h", "i", " ", "v", "i", "e", "c">>,
     <<"d", "a", "n", "g", " ", "l", "a", "m", " ", "v", "i", "e", "c">> >>
KEYWORDS_3 ==
  << <<"q", "u", "y", " ", "t", "r", "i", "n", "h">>,
     <<"s", "o", "p">>,
     <<"h", "u", "o", "n", "g", " ", "d", "a", "n">>,
     <<"q", "u", "y", " ", "c", "h", "e">>,
     <<"q", "u", "y", " ", "t", "r", "i", "n", "h", " ", "l", "a", "m", " ", "v", "i", "e", "c">>,
     <<"q", "u", "y", " ", "t", "r", "i", "n", "h", " ", "m", "u", "a", " ", "h", "a", "n", "g">>,
     <<"q", "u", "y", " ", "t", "r", "i", "n", "h", " ", "b", "a", "n", " ", "h", "a", "n", "g">>,
     <<"q", "u", "y", " ", "t", "r", "i", "n", "h", " ", "t", "u", "y", "e", "n", " ", "d", "u", "n", "g">>,
     <<"q", "u", "y", " ", "t", "r", "i", "n", "h", " ", "n", "g", "h", "i", " ", "p", "h", "e", "p">>,
     <<"q", "u", "y", " ", "t", "r", "i", "n", "h", " ", "t", "h", "a", "n", "h", " ", "t", "o", "a", "n">>,
     <<"p", "h", "e", " ", "d", "u", "y", "e", "t">>,
     <<"l", "u", "o", "n", "g", " ", "d", "u", "y", "e", "t">>,
     <<"f", "o", "r", "m", " ", "b", "i", "e", "u">>,
     <<"m", "a", "u", " ", "b", "i", "e", "u">> >>
KEYWORDS_4 ==
  << <<"d", "o", "a", "n", "h", " ", "t", "h", "u">>,
     <<"c", "h", "i", " ", "p", "h", "i">>,
     <<"l", "o", "i", " ", "n", "h", "u", "a", "n">>,
     <<"t", "o", "n", " ", "k", "h", "o">>,
     <<"b", "a", "o", " ", "c", "a", "o", " ", "k", "i", "n", "h", " ", "d", "o", "a", "n", "h">>,
     <<"b", "a", "o", " ", "c", "a", "o", " ", "t", "a", "i", " ", "c", "h", "i", "n", "h">>,
     <<"k", "p", "i">>,
     <<"c", "h", "i", " ", "s", "o">>,
     <<"t", "h", "o", "n", "g", " ", "k", "e">>,
     <<"p", "h", "a", "n", " ", "t", "i", "c", "h">>,
     <<"s", "o", " ", "l", "i", "e", "u">>,
     <<"d", "o", "a", "n", "h", " ", "s", "o">>,
     <<"s", "a", "n", " ", "l", "u", "o", "n", "g">>,
     <<"t", "h", "a", "n", "g">>,
     <<"q", "u", "y">>,
     <<"n", "a", "m">> >>

(***************************************************************************)
(* Rows: a row is the sequence of its <<column name, cell>> pairs, in      *)
(* column order; a column name is an atom, a cell is a string.             *)
(***************************************************************************)
HasKey(row, h) == \E i \in DOMAIN row : row[i][1] = h

\* row[h] || "": the cell, or the empty string when the column is absent
Cell(row, h) ==
  IF HasKey(row, h) THEN row[CHOOSE i \in DOMAIN row : row[i][1] = h][2]
  ELSE <<>>

\* a || b || c || ""
FirstTruthy(cells) ==
  IF \E i \in DOMAIN cells : cells[i] # <<>>
  THEN cells[CHOOSE i \in DOMAIN cells :
               cells[i] # <<>> /\ \A j \in 1..(i - 1) : cells[j] = <<>>]
  ELSE <<>>

\* Object.values(row)
ObjectValues(row) == [i \in DOMAIN row |-> row[i][2]]

\* Object.keys(row)
ObjectKeys(row) == [i \in DOMAIN row |-> row[i][1]]

H_ChucVu_accented == "Chuc vu (U+1EE9, U+1EE5)"
H_ChucVu == "Chuc vu"
H_ChucVu_garbled == "Ch?c v?"
H_PhongBan_accented == "Phong ban (U+00F2)"
H_PhongBan == "Phong ban"
H_PhongBan_garbled == "Phong ban (U+1E25)"
\* a header of a sheet that lists two names in one column: "Ho, ten"
H_HoTen_listed == "Ho, ten"

(***************************************************************************)
(* removeVietnameseTones  (server.js 149-156, part_000 251-258)            *)
(***************************************************************************)
StripMarks(s) == SelectSeq(s, LAMBDA c : c \notin CombiningMarks)

removeVietnameseTones(str) ==
  LET stripped == StripMarks(normalizeNFD(str))
  IN [i \in 1..Len(stripped) |->
        IF stripped[i] = "d_stroke" THEN "d"
        ELSE IF stripped[i] = "D_stroke" THEN "D"
        ELSE stripped[i]]

Fold(message) == removeVietnameseTones(toLowerCase(message))

(***************************************************************************)
(* classifyQuestion                                                        *)
(***************************************************************************)
\* server.js 281-288
classifyQuestion_groq(message) ==
  LET t == Fold(message)
  IN IF Includes(t, s_nhan_su) \/ Includes(t, s_nhan_vien) THEN 2
     ELSE IF Includes(t, s_quy_trinh) \/ Includes(t, s_sop) THEN 3
     ELSE IF Includes(t, s_doanh_thu) \/ Includes(t, s_kpi) \/ Includes(t, s_bao_cao)
          THEN 4
     ELSE 1

KEYWORDS(section) ==
  CASE section = 1 -> KEYWORDS_1
    [] section = 2 -> KEYWORDS_2
    [] section = 3 -> KEYWORDS_3
    [] section = 4 -> KEYWORDS_4

\* the number of keyword phrases of a section that occur in the text
Score(text, section) ==
  Cardinality({i \in DOMAIN KEYWORDS(section) : Includes(text, KEYWORDS(section)[i])})

Max4(a, b, c, d) ==
  LET m1 == IF a >= b THEN a ELSE b
      m2 == IF c >= d THEN c ELSE d
  IN IF m1 >= m2 THEN m1 ELSE m2

\* /k\s+\w+/ somewhere in the text: k, one or more whitespace, a word character
HonorificThenWord(text, k) ==
  \E i \in 0..(Len(text) - Len(k)) :
    /\ SubSeq(text, i + 1, i + Len(k)) = k
    /\ \E j \in (i + Len(k) + 1)..(Len(text) - 1) :
         /\ \A p \in (i + Len(k) + 1)..j : text[p] \in Whitespace
         /\ text[j + 1] \in WordChars

\* message.trim() is the empty string
IsBlank(message) == \A i \in DOMAIN message : message[i] \in Whitespace

\* a classifier that scores the topics before it looks for a personnel marker
classifyQuestion_openai_scoreFirst(message) ==
  IF IsBlank(message) THEN 1
  ELSE
    LET text == removeVietnameseTones(toLowerCase(message))
        maxScore == Max4(Score(text, 1), Score(text, 2), Score(text, 3), Score(text, 4))
    IN IF maxScore = 0
       THEN IF Includes(text, s_nhan_su) \/ Includes(text, s_nhan_vien) THEN 2 ELSE 1
       ELSE CHOOSE s \in 1..4 :
              /\ Score(text, s) = maxScore
              /\ \A s2 \in 1..(s - 1) : Score(text, s2) # maxScore

\* part_000 333-372
classifyQuestion_openai(message) ==
  IF IsBlank(message) THEN 1
  ELSE
    LET text == removeVietnameseTones(toLowerCase(message))
        maxScore == Max4(Score(text, 1), Score(text, 2), Score(text, 3), Score(text, 4))
    IN IF Includes(text, s_nhan_su) \/ Includes(text, s_nhan_vien) THEN 2
       ELSE IF maxScore = 0
            THEN IF \/ HonorificThenWord(text, s_anh)
                    \/ HonorificThenWord(text, s_chi)
                    \/ HonorificThenWord(text, s_ong)
                    \/ HonorificThenWord(text, s_ba)
                 THEN 2
                 ELSE 1
       ELSE CHOOSE s \in 1..4 :
              /\ Score(text, s) = maxScore
              /\ \A s2 \in 1..(s - 1) : Score(text, s2) # maxScore

(***************************************************************************)
(* searchRows                                                              *)
(***************************************************************************)
\* the cap of the generic scan (server.js 216, part_000 186)
MaxResults == 500

\* rows.slice(0, 20) of the fallback (server.js 220, part_000 190)
FallbackRows == 20

\* a title filter that knows one spelling of the header only
IsLeadershipTitle_oneSpelling(row) ==
  LET title == removeVietnameseTones(toLowerCase(Cell(row, H_ChucVu)))
  IN \/ Includes(title, s_truong)
     \/ Includes(title, s_giam_doc)

IsLeadershipTitle(row) ==
  LET title == removeVietnameseTones(toLowerCase(
                 FirstTruthy(<<Cell(row, H_ChucVu_accented), Cell(row, H_ChucVu),
                               Cell(row, H_ChucVu_garbled)>>)))
  IN \/ Includes(title, s_truong)
     \/ Includes(title, s_giam_doc)
     \/ Includes(title, s_pho_giam_doc)
     \/ Includes(title, s_truong_bp)

DepartmentHas(row, pbKeyword) ==
  LET pb == removeVietnameseTones(toLowerCase(
              FirstTruthy(<<Cell(row, H_PhongBan_accented), Cell(row, H_PhongBan),
                            Cell(row, H_PhongBan_garbled)>>)))
  IN Includes(pb, pbKeyword)

\* words.indexOf(w): the first position, 1-based here; 0 when absent
IndexOf(words, w) ==
  IF \E i \in DOMAIN words : words[i] = w
  THEN CHOOSE i \in DOMAIN words : words[i] = w /\ \A j \in 1..(i - 1) : words[j] # w
  ELSE 0

\* the generic scan: rows some key occurs in, the first MaxResults of them
GenericMatches(keys, rows, folded) ==
  LET Hit(row) ==
        LET joined == toLowerCase(JoinSpace(ObjectValues(row)))
            text == IF folded THEN removeVietnameseTones(joined) ELSE joined
        IN \E i \in DOMAIN keys : Includes(text, keys[i])
  IN Slice(SelectSeq(rows, Hit), MaxResults)

LongWords(q) == SelectSeq(SplitWhitespace(q), LAMBDA w : Len(w) > 1)

\* server.js 160-221
searchRows_groq(question, rows) ==
  LET q == removeVietnameseTones(toLowerCase(question))
      words == SplitWhitespace(q)
      idx == IndexOf(words, s_phong)
      results == GenericMatches(LongWords(q), rows, TRUE)
  IN IF Includes(q, s_truong_phong) \/ Includes(q, s_truong) \/ Includes(q, s_giam_doc)
     THEN SelectSeq(rows, IsLeadershipTitle)
     ELSE IF /\ Includes(q, s_phong_)
             /\ idx # 0
             /\ idx + 1 <= Len(words)
             /\ words[idx + 1] # <<>>
          THEN SelectSeq(rows, LAMBDA row : DepartmentHas(row, words[idx + 1]))
     ELSE IF Len(results) > 0 THEN results ELSE Slice(rows, FallbackRows)

\* part_000 176-192
searchRows_openai(question, rows) ==
  LET q == toLowerCase(question)
      results == GenericMatches(LongWords(q), rows, FALSE)
  IN IF Len(results) = 0 THEN Slice(rows, FallbackRows) ELSE results

(***************************************************************************)
(* isAllEmployeesQuery                                                     *)
(***************************************************************************)
ExplicitAll(t) ==
  \/ Includes(t, s_toan_bo_nhan_su)
  \/ Includes(t, s_toan_bo_nhan_vien)
  \/ Includes(t, s_tat_ca_nhan_su)
  \/ Includes(t, s_tat_ca_nhan_vien)
  \/ Includes(t, s_tong_danh_sach_nhan_su)
  \/ Includes(t, s_tong_danh_sach_nhan_vien)

\* a detector that takes every list phrase for a request for the whole list
isAllEmployeesQuery_groq_anyList(message) ==
  LET t == removeVietnameseTones(toLowerCase(message))
  IN \/ ExplicitAll(t)
     \/ Includes(t, s_danh_sach_nhan_su)
     \/ Includes(t, s_danh_sach_nhan_vien)

\* server.js 225-251
isAllEmployeesQuery_groq(message) ==
  LET t == removeVietnameseTones(toLowerCase(message))
  IN \/ ExplicitAll(t)
     \/ /\ Includes(t, s_danh_sach_nhan_su) \/ Includes(t, s_danh_sach_nhan_vien)
        /\ ~Includes(t, s_truong)
        /\ ~Includes(t, s_pho)
        /\ ~Includes(t, s_phong_)
        /\ ~Includes(t, s_dang_lam)
        /\ ~Includes(t, s_nghi)

\* part_000 376-406
isAllEmployeesQuery_openai(message) ==
  LET text == removeVietnameseTones(toLowerCase(message))
  IN \/ ExplicitAll(text)
     \/ /\ Includes(text, s_danh_sach_nhan_su) \/ Includes(text, s_danh_sach_nhan_vien)
        /\ ~Includes(text, s_truong_phong)
        /\ ~Includes(text, s_phong_)
        /\ ~Includes(text, s_dang_lam_viec)
        /\ ~Includes(text, s_da_nghi)
        /\ ~Includes(text, s_nghi_viec)

(***************************************************************************)
(* The rendering of rows: JSON.stringify(rows, null, 2) and createContext  *)
(***************************************************************************)
\* the concatenation of ss[a..b], halves first
RECURSIVE FlattenRange(_, _, _)
FlattenRange(ss, a, b) ==
  IF a > b THEN <<>>
  ELSE IF a = b THEN ss[a]
  ELSE LET mid == (a + b) \div 2
       IN FlattenRange(ss, a, mid) \o FlattenRange(ss, mid + 1, b)

Flatten(ss) == FlattenRange(ss, 1, Len(ss))

\* [...].join(sep)
Join(ss, sep) ==
  Flatten([i \in 1..(2 * Len(ss) - 1) |-> IF i % 2 = 1 THEN ss[(i + 1) \div 2] ELSE sep])

\* the characters of a column name
HeaderText(h) ==
  CASE h = "Ho ten" -> <<"H", "o", " ", "t", "e", "n">>
    [] h = H_ChucVu_accented -> <<"C", "h", "u_horn_acute", "c", " ", "v", "u_dot">>
    [] h = H_ChucVu -> <<"C", "h", "u", "c", " ", "v", "u">>
    [] h = H_ChucVu_garbled -> <<"C", "h", "?", "c", " ", "v", "?">>
    [] h = H_PhongBan_accented -> <<"P", "h", "o_grave", "n", "g", " ", "b", "a", "n">>
    [] h = H_PhongBan -> <<"P", "h", "o", "n", "g", " ", "b", "a", "n">>
    [] h = H_PhongBan_garbled -> <<"P", "h_dot", "n", "g", " ", "b", "a", "n">>
    [] h = "Muc" -> <<"M", "u", "c">>
    [] h = "Noi dung" -> <<"N", "o", "i", " ", "d", "u", "n", "g">>
    [] h = H_HoTen_listed -> <<"H", "o", ",", " ", "t", "e", "n">>

\* one character of a JSON string literal
JsonChar(c) ==
  IF c = "\"" THEN <<"\\", "\"">>
  ELSE IF c = "\\" THEN <<"\\", "\\">>
  ELSE IF c = "\n" THEN <<"\\", "n">>
  ELSE IF c = "\t" THEN <<"\\", "t">>
  ELSE <<c>>

\* JSON.stringify of a string
JsonString(str) == <<"\"">> \o Flatten([i \in DOMAIN str |-> JsonChar(str[i])]) \o <<"\"">>

\* JSON.stringify(row, null, 2) at nesting depth 1: members at 4 spaces, the
\* closing brace at 2
JsonObject(row) ==
  IF row = <<>> THEN <<"{", "}">>
  ELSE <<"{", "\n">>
       \o Join([i \in DOMAIN row |->
                  <<" ", " ", " ", " ">> \o JsonString(HeaderText(row[i][1]))
                  \o <<":", " ">> \o JsonString(row[i][2])],
               <<",", "\n">>)
       \o <<"\n", " ", " ", "}">>

\* JSON.stringify(rows, null, 2)
JsonStringify(rows) ==
  IF rows = <<>> THEN <<"[", "]">>
  ELSE <<"[", "\n">>
       \o Join([i \in DOMAIN rows |-> <<" ", " ">> \o JsonObject(rows[i])], <<",", "\n">>)
       \o <<"\n", "]">>

\* value.replace(/"/g, '""')
DoubleQuotes(str) ==
  Flatten([i \in DOMAIN str |-> IF str[i] = "\"" THEN <<"\"", "\"">> ELSE <<str[i]>>])

\* rowsToCsv: the names of the columns of the first row as they are, then one
\* line per row with every cell between double quotes
rowsToCsv(rows) ==
  IF rows = <<>> THEN <<>>
  ELSE LET headers == ObjectKeys(rows[1])
           headerLine == Join([j \in DOMAIN headers |-> HeaderText(headers[j])], <<",">>)
           line(row) ==
             Join([j \in DOMAIN headers |->
                     <<"\"">> \o DoubleQuotes(Cell(row, headers[j])) \o <<"\"">>],
                  <<",">>)
       IN Join(<<headerLine>> \o [k \in DOMAIN rows |-> line(rows[k])], <<"\n">>)

\* related.slice(0, 40)
ContextRows == 40

\* MAX_CONTEXT_CHARS of createContext
MAX_CONTEXT_CHARS == 6500

\* "...(rut gon)", with its accents
TruncationMarker == <<".", ".", ".", "(", "r", "u_acute", "t", " ", "g", "o_dot", "n", ")">>

\* json.substring(0, n)
Substring(str, n) == SubSeq(str, 1, IF Len(str) < n THEN Len(str) ELSE n)

\* part_000 194-200
createContext(rows) ==
  LET json == JsonStringify(Slice(rows, ContextRows))
  IN IF Len(json) > MAX_CONTEXT_CHARS
     THEN Substring(json, MAX_CONTEXT_CHARS) \o TruncationMarker
     ELSE json

\* the rendering of the rows in the context of a request: server.js 324 and 329,
\* part_000 440 and 484
RowsRendering(v, related) ==
  IF v = "groq" THEN JsonStringify(Slice(related, ContextRows)) ELSE createContext(related)

(***************************************************************************)
(* The two request handlers                                                *)
(*   "groq"   : src/server.js                                              *)
(*   "openai" : src/unnamed/part_000                                       *)
(* One of them is deployed; variant says which.                            *)
(***************************************************************************)
Variants == {"groq", "openai"}

\* the number of /chat requests of a behaviour
NumReqs == 3

\* the number of times the clock advances in a behaviour
MaxTicks == 3

\* the same, in the dataset workload
MaxDataTicks == 1

Reqs == 1..NumReqs

GROQ_MAX_CONCURRENT == 2

OPENAI_MAX_CONCURRENT == 2

MaxConcurrent(v) == IF v = "groq" THEN GROQ_MAX_CONCURRENT ELSE OPENAI_MAX_CONCURRENT

\* setTimeout(r, 150) of the admission loop
PollMs == 150

\* callGroqWithRetry(payload, retries = 3, delayMs = 1000)
DefaultRetries == 3

DefaultDelayMs == 1000

CACHE_TTL == 10 * 60 * 1000

\* request bodies: 0 is a body without a message field, i > 0 is Messages[i]
NoMessage == 0

Messages ==
  << <<"n", "h", "a_circ", "n", " ", "s", "u_horn_dot">>,
     <<"t", "r", "u", "o", "n", "g", " ", "n", "h", "a", "n", " ", "s", "u">>,
     <<"t", "a", "t", " ", "c", "a", " ", "n", "h", "a", "n", " ", "v", "i", "e", "n">>,
     <<"s", "o", "p">>,
     <<"x", "i", "n", " ", "c", "h", "a", "o">> >>

Bodies == {NoMessage} \cup DOMAIN Messages

\* const { message } = req.body || {}: undefined reads as the empty string
\* wherever the handlers use (message || "")
MessageText(m) == IF m = NoMessage THEN <<>> ELSE Messages[m]

\* the remote personnel source answers with one of these row sets
StaffRow ==
  << <<"Ho ten", <<"a", "n">>>>,
     <<H_ChucVu, <<"n", "h", "a", "n", " ", "v", "i", "e", "n">>>>,
     <<H_PhongBan, <<"k", "e", " ", "t", "o", "a", "n">>>> >>

ManagerRow ==
  << <<"Ho ten", <<"b", "i", "n", "h">>>>,
     <<H_ChucVu, <<"t", "r", "u", "o", "n", "g", " ", "p", "h", "o", "n", "g">>>>,
     <<H_PhongBan, <<"k", "i", "n", "h", " ", "d", "o", "a", "n", "h">>>> >>

IntroRow ==
  << <<"Muc", <<"t", "a", "m", " ", "n", "h", "i", "n">>>>,
     <<"Noi dung", <<"c", "a", " ", "p", "h", "e">>>> >>

RemoteRows(src) ==
  IF src = "hr" THEN {<<>>, <<StaffRow>>}
  ELSE {<<>>, <<IntroRow>>}

\* what axios.get followed by parse ends with
FetchOutcomes(src) ==
  {[ok |-> TRUE, rows |-> d] : d \in RemoteRows(src)} \cup {[ok |-> FALSE, rows |-> <<>>]}

\* what the language-model client ends one call with
ApiOk == [kind |-> "ok", status |-> 200, code |-> "none"]

ApiErrors ==
  { [kind |-> "error", status |-> 429, code |-> "rate_limit_exceeded"],
    [kind |-> "error", status |-> 500, code |-> "internal_error"] }

ApiOutcomes == {ApiOk} \cup ApiErrors

NoResult == [kind |-> "none", status |-> 0, code |-> "none"]

WriteOutcomes == {"ok", "fail"}

Null == <<>>

NoContext == [kind |-> "none", rows |-> 0]

VARIABLES
  variant,             \* which handler is deployed
  now,                 \* Date.now(), in ms
  ticks,               \* how often the clock has advanced
  groqCurrentRunning,  \* groqCurrentRunning / openaiCurrentRunning
  introCache,          \* { rows, loadedAt }
  hrCache,             \* { rows, loadedAt }
  files,               \* the file names present in DOWNLOAD_DIR
  lastOk,              \* per source: when its last successful fetch ended (-1: never)
  req,                 \* per request: where its handler is, its locals, what it did
  textIn,              \* the message a text function is applied to
  rowsIn,              \* the rows a text function is applied to
  applied              \* the text function applied last, and what it returned

vars ==
  <<variant, now, ticks, groqCurrentRunning, introCache, hrCache, files, lastOk, req,
    textIn, rowsIn, applied>>

\* no text function has been applied
NoOut == [fn |-> "none", value |-> 0]

NewReq ==
  [ pc |-> "idle",            \* idle, fetch, gateWait, call, backoff, done
    msg |-> NoMessage,
    section |-> 0,
    src |-> "none",           \* the source getRows was called for
    t0 |-> 0,                 \* const now = Date.now() of the getRows call
    dataContext |-> NoContext,
    downloadUrl |-> Null,
    retries |-> 0,
    delayMs |-> 0,
    wakeAt |-> 0,
    status |-> 0,
    body |-> "none",
    \* history of the request
    called |-> FALSE,         \* getRows was called
    fetched |-> FALSE,        \* getRows issued axios.get
    fresh |-> FALSE,          \* at the call a successful fetch was younger than the TTL
    fetchFailed |-> FALSE,
    hadSnapshot |-> FALSE,    \* the cache held rows when the fetch failed
    got |-> [threw |-> FALSE, rows |-> <<>>],   \* how getRows ended
    wrote |-> FALSE,          \* the export file was written
    writeFailed |-> FALSE,
    admitted |-> FALSE,       \* passed the admission loop
    attempts |-> 0,           \* API calls issued
    waits |-> <<>>,           \* the backoff delays slept, in order
    errors |-> <<>>,          \* the errors the API calls ended with, in order
    result |-> NoResult ]     \* how callGroqWithRetry ended

\* the server after start-up: no request yet, empty caches, no export file
Started ==
  /\ variant \in Variants
  /\ now = 0
  /\ ticks = 0
  /\ groqCurrentRunning = 0
  /\ introCache = [rows |-> <<>>, loadedAt |-> 0]
  /\ hrCache = [rows |-> <<>>, loadedAt |-> 0]
  /\ files = {}
  /\ lastOk = [s \in {"intro", "hr"} |-> -1]
  /\ req = [r \in Reqs |-> NewReq]

Init ==
  /\ Started
  /\ textIn = <<>>
  /\ rowsIn = <<>>
  /\ applied = NoOut

(***************************************************************************)
(* Pieces of the handlers                                                  *)
(***************************************************************************)
classifyQuestion(v, message) ==
  IF v = "groq" THEN classifyQuestion_groq(message) ELSE classifyQuestion_openai(message)

searchRows(v, question, rows) ==
  IF v = "groq" THEN searchRows_groq(question, rows) ELSE searchRows_openai(question, rows)

isAllEmployeesQuery(v, message) ==
  IF v = "groq" THEN isAllEmployeesQuery_groq(message) ELSE isAllEmployeesQuery_openai(message)

\* a handler without the test
MissingMessage_never(m) == FALSE

\* if (!message)
MissingMessage(m) == m = NoMessage \/ MessageText(m) = <<>>

\* the cache test of getHrRows / getCompanyIntroRows
CacheHit(cache, t) == Len(cache.rows) > 0 /\ t - cache.loadedAt < CACHE_TTL

\* the loop test with > for >=
GateFull_offByOne(v, running) == running > MaxConcurrent(v)

\* while (groqCurrentRunning >= GROQ_MAX_CONCURRENT)
GateFull(v, running) == running >= MaxConcurrent(v)

\* err.status === 429 || err.code === "rate_limit_exceeded"
IsRateLimit(err) == err.status = 429 \/ err.code = "rate_limit_exceeded"

\* a retry on every error
ShouldRetry_anyError(err, retries) == retries > 0

\* the retry test of callGroqWithRetry / callOpenAIWithRetry
ShouldRetry(err, retries) == IsRateLimit(err) /\ retries > 0

\* a linear backoff
NextDelay_linear(delayMs) == delayMs + DefaultDelayMs

\* delayMs * 2
NextDelay(delayMs) == delayMs * 2

\* `nhan-su-${Date.now()}.txt` / .csv
FileName(v, t) == <<"nhan-su-", t, IF v = "groq" THEN ".txt" ELSE ".csv">>

DownloadUrl(name) == <<"/downloads/">> \o name

Respond(rec, status, body) == [rec EXCEPT !.pc = "done", !.status = status, !.body = body]

\* client.chat.completions.create(payload) / client.responses.create(payload)
IssueCall(rec) == [rec EXCEPT !.pc = "call", !.attempts = @ + 1]

\* withGroqConcurrencyLimit up to its first await: the loop test, then either the
\* 150 ms sleep or the increment and fn()
ConcurrencyLimit(v, rec, running, t) ==
  IF GateFull(v, running)
  THEN [rec |-> [rec EXCEPT !.pc = "gateWait", !.wakeAt = t + PollMs],
        running |-> running]
  ELSE [rec |-> IssueCall([rec EXCEPT !.admitted = TRUE,
                                      !.wakeAt = 0,
                                      !.retries = DefaultRetries,
                                      !.delayMs = DefaultDelayMs]),
        running |-> running + 1]

\* the context of a personnel or overview request once getRows has returned rows
RowsContext(v, section, related, total) ==
  IF v = "groq" THEN [kind |-> "json", rows |-> Len(Slice(related, 40))]
  ELSE IF section = 2 THEN [kind |-> "total_and_json", rows |-> Len(Slice(related, 40))]
  ELSE [kind |-> "intro_json", rows |-> Len(Slice(related, 40))]

\* the catch of the inner try of part_000: "Khong doc duoc du lieu ..."
UnavailableContext == [kind |-> "unavailable", rows |-> 0]

\* sections 3 and 4: "... chua duoc ket noi"
NotConnectedContext == [kind |-> "not_connected", rows |-> 0]

\* const rowsForFile = isAllEmployeesQuery(message) ? hrRows : related
RowsForFile(v, message, hrRows) ==
  IF isAllEmployeesQuery(v, message) THEN hrRows ELSE searchRows(v, message, hrRows)

\* The handler from the return of getRows to the call of the admission gate.
\* threw: an exception left the section (server.js: to the outer catch).
WithRows(v, rec, rows, wr, t, fs) ==
  LET message == MessageText(rec.msg)
      related == searchRows(v, message, rows)
      rowsForFile == RowsForFile(v, message, rows)
      \* server.js writes only a non-empty row set; part_000 writes [{}] for an empty one
      writes == rec.section = 2 /\ (v = "openai" \/ Len(rowsForFile) > 0)
      ctx == RowsContext(v, rec.section, related, Len(rows))
      name == FileName(v, t)
  IN IF writes /\ wr = "fail"
     THEN [rec |-> [rec EXCEPT !.writeFailed = TRUE,
                               !.dataContext = IF v = "groq" THEN @ ELSE ctx],
           files |-> fs,
           threw |-> (v = "groq")]
     ELSE IF writes
     THEN [rec |-> [rec EXCEPT !.wrote = TRUE,
                               !.downloadUrl = DownloadUrl(name),
                               !.dataContext = ctx],
           files |-> fs \cup {name},
           threw |-> FALSE]
     ELSE [rec |-> [rec EXCEPT !.dataContext = ctx], files |-> fs, threw |-> FALSE]

\* The handler from the point where its context is ready (or an exception is on
\* its way to the outer catch) to its next await.
Proceed(v, step, running, t) ==
  IF step.threw
  THEN [rec |-> Respond(step.rec, 500, "server_error"), running |-> running,
        files |-> step.files]
  ELSE LET g == ConcurrencyLimit(v, step.rec, running, t)
       IN [rec |-> g.rec, running |-> g.running, files |-> step.files]

CacheOf(src) == IF src = "hr" THEN hrCache ELSE introCache

\* an assignment that replaces the rows and keeps the time stamp of the entry
Replaced_rowsOnly(cache, records, t0) == [cache EXCEPT !.rows = records]

\* hrCache = { rows: records, loadedAt: now }: the entry that replaces cache,
\* now being the Date.now() taken when getRows was called
Replaced(cache, records, t0) == [rows |-> records, loadedAt |-> t0]

SourceOf(section) == IF section = 2 THEN "hr" ELSE "intro"

(***************************************************************************)
(* Actions: one per stretch of handler code between two awaits             *)
(***************************************************************************)
\* POST /chat arrives: the handler runs to its first await
Arrive(r, m, wr) ==
  /\ req[r].pc = "idle"
  /\ \A q \in Reqs : q < r => req[q].pc # "idle"
  /\ LET v == variant
         section == classifyQuestion(v, MessageText(m))
         rec0 == [req[r] EXCEPT !.msg = m]
     IN IF MissingMessage(m)
        THEN /\ req' = [req EXCEPT ![r] = Respond(rec0, 400, "missing_message")]
             /\ UNCHANGED <<groqCurrentRunning, files>>
        ELSE IF section \in {3, 4}
        THEN LET out == Proceed(v, [rec |-> [rec0 EXCEPT !.section = section,
                                                        !.dataContext = NotConnectedContext],
                                    files |-> files, threw |-> FALSE],
                                groqCurrentRunning, now)
             IN /\ req' = [req EXCEPT ![r] = out.rec]
                /\ groqCurrentRunning' = out.running
                /\ files' = out.files
        ELSE LET src == SourceOf(section)
                 cache == CacheOf(src)
                 rec1 == [rec0 EXCEPT !.section = section, !.src = src, !.t0 = now,
                                      !.called = TRUE,
                                      !.fresh = (lastOk[src] >= 0 /\ now - lastOk[src] < CACHE_TTL)]
             IN IF CacheHit(cache, now)
                THEN LET rec2 == [rec1 EXCEPT !.got = [threw |-> FALSE, rows |-> cache.rows]]
                         out == Proceed(v, WithRows(v, rec2, cache.rows, wr, now, files),
                                        groqCurrentRunning, now)
                     IN /\ req' = [req EXCEPT ![r] = out.rec]
                        /\ groqCurrentRunning' = out.running
                        /\ files' = out.files
                ELSE /\ req' = [req EXCEPT ![r] = [rec1 EXCEPT !.pc = "fetch", !.fetched = TRUE]]
                     /\ UNCHANGED <<groqCurrentRunning, files>>
  /\ UNCHANGED <<textIn, rowsIn, applied, variant, now, ticks, introCache, hrCache, lastOk>>

\* axios.get (and parse) of a request ends: the handler runs to its next await
FetchReturn(r, o, wr) ==
  /\ req[r].pc = "fetch"
  /\ o \in FetchOutcomes(req[r].src)
  /\ LET v == variant
         src == req[r].src
         cache == CacheOf(src)
         newCache == IF o.ok THEN Replaced(cache, o.rows, req[r].t0) ELSE cache
         \* server.js catches and returns the cached rows; part_000 lets it propagate
         throws == ~o.ok /\ v = "openai"
         rows == IF o.ok THEN o.rows ELSE cache.rows
         rec1 == [req[r] EXCEPT !.fetchFailed = ~o.ok,
                                !.hadSnapshot = (~o.ok /\ Len(cache.rows) > 0),
                                !.got = [threw |-> throws,
                                         rows |-> IF throws THEN <<>> ELSE rows]]
         step == IF throws
                 THEN [rec |-> [rec1 EXCEPT !.dataContext = UnavailableContext],
                       files |-> files, threw |-> FALSE]
                 ELSE WithRows(v, rec1, rows, wr, now, files)
         out == Proceed(v, step, groqCurrentRunning, now)
     IN /\ req' = [req EXCEPT ![r] = out.rec]
        /\ groqCurrentRunning' = out.running
        /\ files' = out.files
        /\ hrCache' = IF src = "hr" THEN newCache ELSE hrCache
        /\ introCache' = IF src = "intro" THEN newCache ELSE introCache
        /\ lastOk' = IF o.ok THEN [lastOk EXCEPT ![src] = now] ELSE lastOk
  /\ UNCHANGED <<textIn, rowsIn, applied, variant, now, ticks>>

\* the 150 ms sleep of the admission loop ends: the loop test runs again
GateWake(r) ==
  /\ req[r].pc = "gateWait"
  /\ now >= req[r].wakeAt
  /\ LET g == ConcurrencyLimit(variant, req[r], groqCurrentRunning, now)
     IN /\ req' = [req EXCEPT ![r] = g.rec]
        /\ groqCurrentRunning' = g.running
  /\ UNCHANGED <<textIn, rowsIn, applied, variant, now, ticks, introCache, hrCache, files, lastOk>>

\* the answer of the /chat route to the end of the language-model call
Answer(v, rec, res) ==
  IF res.kind = "ok" THEN Respond(rec, 200, "reply")
  ELSE IF v = "groq" THEN Respond(rec, 500, "server_error")
  ELSE IF IsRateLimit(res) THEN Respond(rec, 429, "retry_later")
  ELSE Respond(rec, 500, "ai_connect_error")

\* the decrement after the await, with no finally: skipped when fn() throws
AfterCall_noFinally(running, o) == IF o.kind = "ok" THEN running - 1 ELSE running

\* finally { groqCurrentRunning--; }: whether fn() returned or threw
AfterCall(running, o) == running - 1

\* one API call ends: callGroqWithRetry sleeps before a retry, or returns or
\* throws through the finally of the admission gate into the route
ApiReturn(r, o) ==
  /\ req[r].pc = "call"
  /\ o \in ApiOutcomes
  /\ IF o.kind = "error" /\ ShouldRetry(o, req[r].retries)
     THEN /\ req' = [req EXCEPT ![r] = [@ EXCEPT !.pc = "backoff",
                                                 !.wakeAt = now + req[r].delayMs,
                                                 !.errors = Append(@, o)]]
          /\ UNCHANGED groqCurrentRunning
     ELSE /\ req' = [req EXCEPT ![r] =
                       Answer(variant,
                              [@ EXCEPT !.result = o,
                                        !.errors = IF o.kind = "error" THEN Append(@, o) ELSE @],
                              o)]
          /\ groqCurrentRunning' = AfterCall(groqCurrentRunning, o)
  /\ UNCHANGED <<textIn, rowsIn, applied, variant, now, ticks, introCache, hrCache, files, lastOk>>

\* the backoff sleep ends: callGroqWithRetry(payload, retries - 1, delayMs * 2)
BackoffWake(r) ==
  /\ req[r].pc = "backoff"
  /\ now >= req[r].wakeAt
  /\ req' = [req EXCEPT ![r] = IssueCall([@ EXCEPT !.retries = @ - 1,
                                                   !.wakeAt = 0,
                                                   !.waits = Append(@, req[r].delayMs),
                                                   !.delayMs = NextDelay(@)])]
  /\ UNCHANGED <<textIn, rowsIn, applied, variant, now, ticks, groqCurrentRunning, introCache, hrCache, files, lastOk>>

\* the clock advances: by a millisecond, to the deadline of a sleeping timer, or by
\* the cache's time to live
Deadlines == {req[r].wakeAt : r \in {q \in Reqs : req[q].pc \in {"gateWait", "backoff"}}}

Tick(t, max) ==
  /\ ticks < max
  /\ t \in {now + 1, now + CACHE_TTL} \cup Deadlines
  /\ t > now
  /\ now' = t
  /\ ticks' = ticks + 1
  /\ UNCHANGED <<textIn, rowsIn, applied, variant, groqCurrentRunning, introCache, hrCache, files, lastOk, req>>

Next ==
  \/ \E r \in Reqs, m \in Bodies, wr \in WriteOutcomes : Arrive(r, m, wr)
  \/ \E r \in Reqs, wr \in WriteOutcomes :
       \E o \in FetchOutcomes(req[r].src) : FetchReturn(r, o, wr)
  \/ \E r \in Reqs : GateWake(r)
  \/ \E r \in Reqs, o \in ApiOutcomes : ApiReturn(r, o)
  \/ \E r \in Reqs : BackoffWake(r)
  \/ \E t \in {now + 1, now + CACHE_TTL} \cup Deadlines : Tick(t, MaxTicks)

\* every request, every outcome
Spec == Init /\ [][Next]_vars

(***************************************************************************)
(* Workloads.  The language-model workload: requests that need no dataset  *)
(* (no message, procedures, metrics), every outcome of the API.            *)
(***************************************************************************)
GateBodies ==
  {NoMessage} \cup {m \in DOMAIN Messages : classifyQuestion_groq(Messages[m]) \in {3, 4}}

NextGate ==
  \/ \E r \in Reqs, m \in GateBodies : Arrive(r, m, "ok")
  \/ \E r \in Reqs : GateWake(r)
  \/ \E r \in Reqs, o \in ApiOutcomes : ApiReturn(r, o)
  \/ \E r \in Reqs : BackoffWake(r)
  \/ \E t \in Deadlines : Tick(t, MaxTicks)

SpecGate == Init /\ [][NextGate]_vars

(***************************************************************************)
(* The sustained-load workload: requests that need no dataset keep         *)
(* arriving.  A handler that has answered is gone and a later request      *)
(* takes its place.  Only timers read the clock here, so the clock is kept *)
(* as the time each pending timer has left: when time passes, every        *)
(* sleeping handler's wakeAt comes closer by as much and now stays.  A     *)
(* timer that is due runs before anything else does.                       *)
(***************************************************************************)
\* the handlers asleep in setTimeout
Sleeping == {r \in Reqs : req[r].pc \in {"gateWait", "backoff"}}

\* no timer is due
Quiet == \A r \in Sleeping : req[r].wakeAt > now

\* res.json(...) has been sent and the handler has returned: the next request
Recycle(r) ==
  /\ req[r].pc = "done"
  /\ req' = [req EXCEPT ![r] = NewReq]
  /\ UNCHANGED <<textIn, rowsIn, applied, variant, now, ticks, groqCurrentRunning,
                 introCache, hrCache, files, lastOk>>

\* time passes until the next timer is due
Elapse(d) ==
  /\ d > 0
  /\ \E r \in Sleeping : req[r].wakeAt - now = d
  /\ \A r \in Sleeping : req[r].wakeAt - now >= d
  /\ req' = [r \in Reqs |-> IF r \in Sleeping
                               THEN [req[r] EXCEPT !.wakeAt = @ - d]
                               ELSE req[r]]
  /\ UNCHANGED <<textIn, rowsIn, applied, variant, now, ticks, groqCurrentRunning,
                 introCache, hrCache, files, lastOk>>

NextLoad ==
  \/ \E r \in Reqs, m \in GateBodies \ {NoMessage} : Quiet /\ Arrive(r, m, "ok")
  \/ \E r \in Reqs : GateWake(r)
  \/ \E r \in Reqs, o \in ApiOutcomes : Quiet /\ ApiReturn(r, o)
  \/ \E r \in Reqs : BackoffWake(r)
  \/ \E r \in Reqs : Quiet /\ Recycle(r)
  \/ \E d \in {req[r].wakeAt - now : r \in Sleeping} : Elapse(d)

\* timers fire, time passes and the API ends every call; requests arrive as
\* they please
LoadFairness ==
  /\ \A r \in Reqs : WF_vars(GateWake(r))
  /\ \A r \in Reqs : WF_vars(\E o \in ApiOutcomes : Quiet /\ ApiReturn(r, o))
  /\ \A r \in Reqs : WF_vars(BackoffWake(r))
  /\ WF_vars(\E d \in {req[r].wakeAt - now : r \in Sleeping} : Elapse(d))

SpecLoad == Init /\ [][NextLoad]_vars /\ LoadFairness

(***************************************************************************)
(* The dataset workload: personnel and overview requests, every outcome of *)
(* the fetch and of the export write, an API that is never rate limited.   *)
(***************************************************************************)
\* the number of requests of the dataset workload
NumDataReqs == 2

DataReqs == 1..NumDataReqs

DataBodies ==
  {NoMessage} \cup {m \in DOMAIN Messages : classifyQuestion_groq(Messages[m]) \in {1, 2}}

DataApiOutcomes == {ApiOk}

NextData ==
  \/ \E r \in DataReqs, m \in DataBodies, wr \in WriteOutcomes : Arrive(r, m, wr)
  \/ \E r \in DataReqs, wr \in WriteOutcomes :
       \E o \in FetchOutcomes(req[r].src) : FetchReturn(r, o, wr)
  \/ \E r \in DataReqs, o \in DataApiOutcomes : ApiReturn(r, o)
  \/ \E t \in {now + 1, now + CACHE_TTL} : Tick(t, MaxDataTicks)

SpecData == Init /\ [][NextData]_vars

(***************************************************************************)
(* The silent-endpoint workload: the dataset endpoint accepts the request  *)
(* of axios.get and never answers it.  part_000 passes timeout: 8000 to    *)
(* axios.get, server.js passes no timeout, and axios then waits without    *)
(* limit (its default timeout is 0).  Two requests never fill the          *)
(* admission gate, so its polling loop has no part here.                   *)
(***************************************************************************)
\* timeout: 8000 of axios.get in part_000
OPENAI_FETCH_TIMEOUT == 8000

\* the timeout option of axios.get when none is passed: no timeout
AXIOS_NO_TIMEOUT == 0

FetchTimeoutMs(v) == IF v = "openai" THEN OPENAI_FETCH_TIMEOUT ELSE AXIOS_NO_TIMEOUT

\* axios arms its timer only for a timeout option above 0
HasFetchTimeout(v) == FetchTimeoutMs(v) > 0

\* when the timers of the pending fetches fire
FetchDeadlines ==
  IF HasFetchTimeout(variant)
  THEN {req[r].t0 + FetchTimeoutMs(variant) : r \in {q \in Reqs : req[q].pc = "fetch"}}
  ELSE {}

\* the timer of axios.get fires: the request is aborted and axios.get rejects
FetchTimeout(r, wr) ==
  /\ req[r].pc = "fetch"
  /\ HasFetchTimeout(variant)
  /\ now >= req[r].t0 + FetchTimeoutMs(variant)
  /\ FetchReturn(r, [ok |-> FALSE, rows |-> <<>>], wr)

\* the clock reaches the deadline of a pending fetch
FetchClock(t) ==
  /\ t \in FetchDeadlines
  /\ t > now
  /\ now' = t
  /\ ticks' = ticks + 1
  /\ UNCHANGED <<textIn, rowsIn, applied, variant, groqCurrentRunning, introCache, hrCache, files, lastOk, req>>

NextSilent ==
  \/ \E r \in DataReqs, m \in Bodies : Arrive(r, m, "ok")
  \/ \E r \in DataReqs : FetchTimeout(r, "ok")
  \/ \E r \in DataReqs, o \in DataApiOutcomes : ApiReturn(r, o)
  \/ \E t \in FetchDeadlines : FetchClock(t)
  \/ Tick(now + CACHE_TTL, MaxDataTicks)

\* timers fire, the clock reaches every deadline, the language-model API answers
SilentFairness ==
  /\ \A r \in DataReqs : WF_vars(FetchTimeout(r, "ok"))
  /\ \A r \in DataReqs : WF_vars(\E o \in DataApiOutcomes : ApiReturn(r, o))
  /\ WF_vars(\E t \in FetchDeadlines : FetchClock(t))

SpecSilent == Init /\ [][NextSilent]_vars /\ SilentFairness

(***************************************************************************)
(* The text workloads: a text function of the handlers applied to one      *)
(* input.  A question is a few phrases joined by single spaces.            *)
(***************************************************************************)
\* the number of phrases of a question
MaxPhrases == 2

\* "nhan su" with its accents, upper case, keywords of the four topics, an
\* honorific, a name, a word that ends in an honorific, the empty string
Phrases ==
  << <<"n", "h", "a_circ", "n", " ", "s", "u_horn_dot">>,
     <<"N", "H", "A", "N", " ", "V", "I", "E", "N">>,
     <<"k", "p", "i">>,
     <<"b", "a", "o", " ", "c", "a", "o", " ", "k", "p", "i">>,
     <<"s", "o", "p">>,
     <<"t", "a", "m", " ", "n", "h", "i", "n">>,
     <<"a", "n", "h">>,
     <<"b", "i", "n", "h">>,
     <<"t", "h", "a", "n", "h", " ", "t", "o", "a", "n">>,
     <<>> >>

\* the sequences of at most n elements of a set
SeqsUpTo(S, n) == UNION {[1..k -> S] : k \in 0..n}

PhraseText(ps, phrases) == JoinSpace([i \in DOMAIN ps |-> phrases[ps[i]]])

Questions == {PhraseText(ps, Phrases) : ps \in SeqsUpTo(DOMAIN Phrases, MaxPhrases)}

\* the keyword phrases server.js tests for, by topic
KEYWORDS_groq(section) ==
  CASE section = 1 -> <<>>
    [] section = 2 -> <<s_nhan_su, s_nhan_vien>>
    [] section = 3 -> <<s_quy_trinh, s_sop>>
    [] section = 4 -> <<s_doanh_thu, s_kpi, s_bao_cao>>

KeywordsOf(v, section) == IF v = "groq" THEN KEYWORDS_groq(section) ELSE KEYWORDS(section)

\* classifyQuestion(message) is called
ApplyClassify ==
  /\ applied = NoOut
  /\ applied' = [fn |-> "classifyQuestion", value |-> classifyQuestion(variant, textIn)]
  /\ UNCHANGED <<textIn, rowsIn, variant, now, ticks, groqCurrentRunning, introCache,
                 hrCache, files, lastOk, req>>

InitClassify ==
  /\ Started
  /\ textIn \in Questions
  /\ rowsIn = <<>>
  /\ applied = NoOut

NextClassify == ApplyClassify

SpecClassify == InitClassify /\ [][NextClassify]_vars

(***************************************************************************)
(* The search workload: searchRows applied to a question and a table.  The *)
(* rows of a table share one column set, as the records of one CSV file    *)
(* do; the title and department columns are headed in one of the three     *)
(* known spellings.                                                        *)
(***************************************************************************)
\* the number of rows of a small table
MaxRows == 2

\* a leadership word, a department word and the start of a department name,
\* a word no row holds, a word a row holds, the list phrases, a qualifier
SearchPhrases ==
  << <<"T", "r", "u", "o", "n", "g", " ", "p", "h", "o", "n", "g">>,
     <<"g", "i", "a", "m", " ", "d", "o", "c">>,
     <<"p", "h", "o", "n", "g">>,
     <<"k", "e">>,
     <<"x", "y", "z">>,
     <<"a", "n">>,
     <<"d", "a", "n", "h", " ", "s", "a", "c", "h", " ", "n", "h", "a", "n", " ", "v", "i", "e", "n">>,
     <<"t", "a", "t", " ", "c", "a", " ", "n", "h", "a", "n", " ", "s", "u">>,
     <<"d", "a", "n", "g", " ", "l", "a", "m">>,
     <<>> >>

SearchQuestions ==
  {PhraseText(ps, SearchPhrases) : ps \in SeqsUpTo(DOMAIN SearchPhrases, MaxPhrases)}

\* name, title, department
People ==
  << << <<"a", "n">>, <<"n", "h", "a", "n", " ", "v", "i", "e", "n">>, <<"k", "e", " ", "t", "o", "a", "n">> >>,
     << <<"b", "i", "n", "h">>, <<"T", "r", "u", "o", "n", "g", " ", "p", "h", "o", "n", "g">>, <<"k", "i", "n", "h", " ", "d", "o", "a", "n", "h">> >>,
     << <<"c", "h", "i">>, <<"G", "I", "A", "M", " ", "D_stroke", "O", "C">>, <<"b", "a", "n", " ", "g", "i", "a", "m", " ", "d", "o", "c">> >> >>

Spellings == {"accented", "plain", "garbled"}

TitleHeader(sp) ==
  CASE sp = "accented" -> H_ChucVu_accented
    [] sp = "plain" -> H_ChucVu
    [] sp = "garbled" -> H_ChucVu_garbled

DepartmentHeader(sp) ==
  CASE sp = "accented" -> H_PhongBan_accented
    [] sp = "plain" -> H_PhongBan
    [] sp = "garbled" -> H_PhongBan_garbled

PersonRow(sp, p) ==
  << <<"Ho ten", People[p][1]>>,
     <<TitleHeader(sp), People[p][2]>>,
     <<DepartmentHeader(sp), People[p][3]>> >>

\* a table longer than the cap of the scan, every row of it a head of department
LongTable == [i \in 1..(MaxResults + 1) |-> PersonRow("plain", 2)]

Tables ==
  {[i \in DOMAIN ps |-> PersonRow(sp, ps[i])] :
     sp \in Spellings, ps \in SeqsUpTo(DOMAIN People, MaxRows)}
  \cup {<<IntroRow>>, LongTable}

\* searchRows(message, hrRows) is called
ApplySearch ==
  /\ applied = NoOut
  /\ applied' = [fn |-> "searchRows", value |-> searchRows(variant, textIn, rowsIn)]
  /\ UNCHANGED <<textIn, rowsIn, variant, now, ticks, groqCurrentRunning, introCache,
                 hrCache, files, lastOk, req>>

\* the rows for the export file are chosen
ApplyRowsForFile ==
  /\ applied = NoOut
  /\ applied' = [fn |-> "rowsForFile", value |-> RowsForFile(variant, textIn, rowsIn)]
  /\ UNCHANGED <<textIn, rowsIn, variant, now, ticks, groqCurrentRunning, introCache,
                 hrCache, files, lastOk, req>>

InitSearch ==
  /\ Started
  /\ textIn \in SearchQuestions
  /\ rowsIn \in Tables
  /\ applied = NoOut

NextSearch == ApplySearch \/ ApplyRowsForFile

SpecSearch == InitSearch /\ [][NextSearch]_vars

(***************************************************************************)
(* The context workload: the rows of a search result rendered for the      *)
(* prompt.  A table is some number of copies of one row.                   *)
(***************************************************************************)
\* the number of rows of a table, beyond the 40 rows that are rendered
MaxContextRows == 41

\* the number of characters of a long cell
WideCellChars == 200

WideRow == << <<"Ho ten", [i \in 1..WideCellChars |-> "x"]>> >>

\* cells with a quote, a backslash and a line break, and an empty cell
QuotedRow ==
  << <<"Ho ten", <<"a", "\"", "b", "\\", "\n", "c">>>>,
     <<"Muc", <<>>>> >>

ContextRowKinds == <<StaffRow, WideRow, QuotedRow>>

ContextTables ==
  {[i \in 1..n |-> ContextRowKinds[k]] : n \in 0..MaxContextRows, k \in DOMAIN ContextRowKinds}

\* dataContext is built from the rows of the search result
ApplyContext ==
  /\ applied = NoOut
  /\ applied' = [fn |-> "context", value |-> RowsRendering(variant, rowsIn)]
  /\ UNCHANGED <<textIn, rowsIn, variant, now, ticks, groqCurrentRunning, introCache,
                 hrCache, files, lastOk, req>>

InitContext ==
  /\ Started
  /\ textIn = <<>>
  /\ rowsIn \in ContextTables
  /\ applied = NoOut

NextContext == ApplyContext

SpecContext == InitContext /\ [][NextContext]_vars

(***************************************************************************)
(* The export workload: rows written as delimited text.  The rows of a     *)
(* table share one column set; a row may list its columns in either order. *)
(***************************************************************************)
\* cells: empty, plain, with a quote, with a comma, with a line break, quotes only
CsvCells ==
  {<<>>, <<"a", "n">>, <<"a", "\"", "b">>, <<"a", ",", "b">>, <<"a", "\n", "b">>,
   <<"\"", "\"">>}

CsvColumnSets == {<<"Ho ten">>, <<"Ho ten", "Muc">>, <<H_HoTen_listed, "Muc">>}

Reverse(seq) == [i \in DOMAIN seq |-> seq[Len(seq) + 1 - i]]

\* the rows over the columns cols
CsvRows(cols) ==
  {[j \in DOMAIN order |-> <<order[j], cells[j]>>] :
     order \in {cols, Reverse(cols)}, cells \in [DOMAIN cols -> CsvCells]}

CsvTables ==
  UNION {SeqsUpTo(CsvRows(cols), MaxRows) \ {<<>>} : cols \in CsvColumnSets}

\* the text of the export file is produced
ApplyCsv ==
  /\ applied = NoOut
  /\ applied' = [fn |-> "csv", value |-> rowsToCsv(rowsIn)]
  /\ UNCHANGED <<textIn, rowsIn, variant, now, ticks, groqCurrentRunning, introCache,
                 hrCache, files, lastOk, req>>

InitCsv ==
  /\ Started
  /\ textIn = <<>>
  /\ rowsIn \in CsvTables
  /\ applied = NoOut

NextCsv == ApplyCsv

SpecCsv == InitCsv /\ [][NextCsv]_vars

(***************************************************************************)
(* Claims                                                                  *)
(***************************************************************************)
\* the requests whose language-model call is admitted and has not finished
InFlight == {r \in Reqs : req[r].pc \in {"call", "backoff"}}

\* the call of a request ended with a rate-limit error
EndedRateLimited(rec) ==
  rec.pc = "done" /\ rec.result.kind = "error" /\ IsRateLimit(rec.result)

\* the first wait is 1000 ms, each later one twice the one before
Doubling(ws) == \A i \in DOMAIN ws : ws[i] = IF i = 1 THEN 1000 ELSE 2 * ws[i - 1]

\* the bodies of the 500 answers
GenericBodies == {"server_error", "ai_connect_error"}

Distance(a, b) == IF a >= b THEN a - b ELSE b - a

\* C1: in every reachable state, under any interleaving of /chat requests, at most
\* 2 language-model calls are in flight (admitted by the gate and not finished).
C1_AtMostTwoInFlight == Cardinality(InFlight) <= 2

\* two calls in flight and a third request held in the polling loop
C1_Witness ==
  Cardinality(InFlight) = 2 /\ \E r \in Reqs : req[r].pc = "gateWait"

\* C2 as claimed: at most 3 attempts at the API call for one request, 1000 ms
\* before the first retry and twice the previous delay before each later one,
\* and then the rate-limit error reaches the caller.
C2_AtMostThreeAttempts ==
  \A r \in Reqs :
    /\ req[r].attempts <= 3
    /\ Doubling(req[r].waits)
    /\ EndedRateLimited(req[r]) => req[r].result = req[r].errors[Len(req[r].errors)]

\* C2 amended: at most 4 attempts (the first call and 3 retries), one wait before
\* each retry, of 1000 ms and then twice the previous one; the rate-limit error
\* reaches the caller only when the fourth attempt was rate limited too, and then
\* no further attempt is made.
C2_AtMostFourAttempts ==
  \A r \in Reqs :
    /\ req[r].attempts <= 4
    /\ req[r].attempts > 0 => Len(req[r].waits) = req[r].attempts - 1
    /\ Doubling(req[r].waits)
    /\ EndedRateLimited(req[r]) =>
         /\ req[r].attempts = 4
         /\ req[r].waits = <<1000, 2000, 4000>>
         /\ req[r].result = req[r].errors[4]
    /\ Len(req[r].errors) = 4 => req[r].pc = "done" /\ req[r].result = req[r].errors[4]

\* a request whose four attempts were all rate limited
C2_Witness ==
  \E r \in Reqs :
    /\ EndedRateLimited(req[r])
    /\ req[r].attempts = 4
    /\ \A i \in 1..4 : IsRateLimit(req[r].errors[i])

\* C3: a request whose call is still rate limited when the retries are used up is
\* answered with 429 or 502 and a retry-later message, unlike the generic 500.
C3_RateLimitAnsweredRetryLater ==
  \A r \in Reqs :
    EndedRateLimited(req[r]) =>
      /\ req[r].status \in {429, 502}
      /\ req[r].body = "retry_later"
      /\ req[r].body \notin GenericBodies

\* C4 as claimed: a call that fails with an error that is no rate-limit error was
\* attempted exactly once for its request, without a backoff wait, and the
\* request is answered with a generic 500.
C4_FailedCallAttemptedOnce ==
  \A r \in Reqs :
    (req[r].result.kind = "error" /\ ~IsRateLimit(req[r].result)) =>
      /\ req[r].attempts = 1
      /\ req[r].waits = <<>>
      /\ req[r].status = 500
      /\ req[r].body \in GenericBodies

\* C4 amended: an attempt that ends with an error that is no rate-limit error is
\* the last attempt of its request: no wait and no attempt follows it, every
\* wait before it followed a rate-limited attempt, and the request is answered
\* with a generic 500; when it is the first attempt, the call was attempted
\* exactly once and without any wait.
C4_OtherErrorNotRetried ==
  \A r \in Reqs :
    \A i \in DOMAIN req[r].errors :
      ~IsRateLimit(req[r].errors[i]) =>
        /\ i = Len(req[r].errors)
        /\ req[r].attempts = i
        /\ Len(req[r].waits) = i - 1
        /\ \A j \in 1..(i - 1) : IsRateLimit(req[r].errors[j])
        /\ req[r].pc = "done"
        /\ req[r].result = req[r].errors[i]
        /\ req[r].status = 500
        /\ req[r].body \in GenericBodies

\* a first attempt that ended with an error that is no rate-limit error
C4_Witness ==
  \E r \in Reqs :
    /\ Len(req[r].errors) = 1
    /\ ~IsRateLimit(req[r].errors[1])
    /\ req[r].attempts = 1
    /\ req[r].status = 500

C5_Rejected ==
  \A r \in Reqs :
    (req[r].pc # "idle" /\ req[r].msg = NoMessage) =>
      /\ req[r].pc = "done"
      /\ req[r].status = 400
      /\ req[r].body = "missing_message"
      /\ ~req[r].called
      /\ ~req[r].fetched
      /\ ~req[r].admitted
      /\ req[r].attempts = 0
      /\ ~req[r].wrote
      /\ ~req[r].writeFailed

C5_NothingTouched ==
  \A r \in Reqs :
    (req[r].pc = "idle" /\ req'[r].pc # "idle" /\ req'[r].msg = NoMessage) =>
      UNCHANGED <<introCache, hrCache, groqCurrentRunning, files, lastOk>>

\* C5: a POST /chat whose body has no message field is answered with 400 and makes
\* no downstream call: no dataset fetch, no language-model call, no export file,
\* and the dataset caches and the in-flight counter stay as they were.
C5_MissingMessageRejected == [](C5_Rejected) /\ [][C5_NothingTouched]_vars

\* a 400 answer given while the personnel cache is loaded and another request has
\* its language-model call in flight
C5_Witness ==
  \E r \in Reqs :
    /\ req[r].status = 400
    /\ req[r].msg = NoMessage
    /\ Len(hrCache.rows) > 0
    /\ groqCurrentRunning > 0

\* C6: once a fetch of a source has succeeded, a call that starts less than 10
\* minutes later issues no remote fetch; and of two calls to the same source made
\* within 1 second of each other, at most one issues a remote fetch.
C6_NoRefetchWithinTtl ==
  /\ \A r \in Reqs : req[r].fresh => ~req[r].fetched
  /\ \A r1, r2 \in Reqs :
       (/\ r1 # r2
        /\ req[r1].called /\ req[r2].called
        /\ req[r1].src = req[r2].src
        /\ Distance(req[r1].t0, req[r2].t0) <= 1000)
       => ~(req[r1].fetched /\ req[r2].fetched)

\* C7: a failed remote fetch leaves the cache entry of its source as it was, and
\* the call returns the rows of the previous snapshot (none: the empty sequence).
C7_FailedFetchServesSnapshot ==
  [][\A r \in Reqs :
       (req[r].pc = "fetch" /\ req'[r].pc # "fetch" /\ req'[r].fetchFailed) =>
         /\ introCache' = introCache
         /\ hrCache' = hrCache
         /\ ~req'[r].got.threw
         /\ req'[r].got.rows = CacheOf(req[r].src).rows]_vars

\* C8: when the fetch of a request fails and no earlier snapshot is cached, the
\* context sent to the language model carries the data-unavailable marker and is
\* never the rendering of an empty row sequence.
C8_UnavailableMarker ==
  \A r \in Reqs :
    (req[r].fetchFailed /\ ~req[r].hadSnapshot /\ req[r].attempts > 0) =>
      /\ req[r].dataContext.kind = "unavailable"
      /\ ~(req[r].dataContext.kind \in {"json", "total_and_json", "intro_json"}
           /\ req[r].dataContext.rows = 0)

\* C9: a failed write of the export file never fails the request: the
\* language-model call is still made, and the request is answered with 200 and
\* download_url null.
C9_ExportFailureTolerated ==
  \A r \in Reqs :
    (req[r].writeFailed /\ req[r].pc = "done") =>
      /\ req[r].attempts > 0
      /\ req[r].result.kind = "ok" => (req[r].status = 200 /\ req[r].downloadUrl = Null)

\* C10: every export is written to a file name no earlier export used, so no two
\* answers carry the same download_url.
C10_UniqueExportNames ==
  \A r1, r2 \in Reqs :
    (r1 # r2 /\ req[r1].wrote /\ req[r2].wrote) =>
      req[r1].downloadUrl # req[r2].downloadUrl

\* C11: a /chat request is not stalled for ever by a dataset endpoint that never
\* answers: the fetch is given up after a fixed timeout, and the request is
\* answered.
C11_SilentEndpointAnswered ==
  \A r \in DataReqs : (req[r].pc = "fetch") ~> (req[r].pc = "done")

Classified == applied.fn = "classifyQuestion"

\* the number of keyword phrases of a topic that occur in the text
KeywordCount(v, text, section) ==
  Cardinality({i \in DOMAIN KeywordsOf(v, section) :
                 Includes(text, KeywordsOf(v, section)[i])})

MaxKeywordCount(v, text) ==
  Max4(KeywordCount(v, text, 1), KeywordCount(v, text, 2),
       KeywordCount(v, text, 3), KeywordCount(v, text, 4))

HasPersonnelMarker(text) == Includes(text, s_nhan_su) \/ Includes(text, s_nhan_vien)

\* k stands in the text as a word, then whitespace, then the start of a word
HonorificAsWord(text, k) ==
  \E i \in 0..(Len(text) - Len(k)) :
    /\ SubSeq(text, i + 1, i + Len(k)) = k
    /\ (i = 0 \/ text[i] \notin WordChars)
    /\ \E j \in (i + Len(k) + 1)..(Len(text) - 1) :
         /\ \A p \in (i + Len(k) + 1)..j : text[p] \in Whitespace
         /\ text[j + 1] \in WordChars

NamesAPerson(text) ==
  \/ HonorificAsWord(text, s_anh)
  \/ HonorificAsWord(text, s_chi)
  \/ HonorificAsWord(text, s_ong)
  \/ HonorificAsWord(text, s_ba)

\* C12: a message whose tone-folded lowercase text contains "nhan su" or
\* "nhan vien" is classified as topic 2, whatever keywords of the other topics
\* it also contains.
C12_PersonnelOverride ==
  (Classified /\ HasPersonnelMarker(Fold(textIn))) => applied.value = 2

\* a message with a personnel marker in which another topic has at least as many
\* keywords as the personnel topic
C12_Witness ==
  /\ Classified
  /\ HasPersonnelMarker(Fold(textIn))
  /\ applied.value = 2
  /\ \E s \in {1, 3, 4} :
       KeywordCount(variant, Fold(textIn), s) >= KeywordCount(variant, Fold(textIn), 2)

\* C13: a message without a personnel marker in which some topic keyword occurs
\* is classified as a topic with the greatest number of matching keyword
\* phrases, the lowest-numbered one when several topics tie.
C13_MaxScoreLowestTopic ==
  LET text == Fold(textIn)
      top == MaxKeywordCount(variant, text)
  IN (Classified /\ ~HasPersonnelMarker(text) /\ top > 0) =>
       /\ KeywordCount(variant, text, applied.value) = top
       /\ \A s \in 1..(applied.value - 1) : KeywordCount(variant, text, s) # top

\* C14: a message in which no topic keyword occurs is classified as topic 2
\* exactly when its folded text has one of the words anh, chi, ong, ba followed
\* by a word, and as topic 1 otherwise (also when it is empty or blank).
C14_HonorificOrDefault ==
  LET text == Fold(textIn)
  IN (Classified /\ MaxKeywordCount(variant, text) = 0) =>
       applied.value = IF NamesAPerson(text) THEN 2 ELSE 1

Searched == applied.fn = "searchRows"

\* the question asks for the heads: it holds a leadership marker word
AsksForLeaders(text) ==
  Includes(text, s_truong_phong) \/ Includes(text, s_truong) \/ Includes(text, s_giam_doc)

\* the title of the row, under some known spelling of its header, holds a
\* leadership word
HoldsLeadershipTitle(row) ==
  \E sp \in Spellings :
    \E w \in {s_truong, s_giam_doc, s_pho_giam_doc, s_truong_bp} :
      Includes(Fold(Cell(row, TitleHeader(sp))), w)

\* the token that follows the department word of the question; none: <<>>
DepartmentToken(text) ==
  LET words == SplitWhitespace(text)
      idx == IndexOf(words, s_phong)
  IN IF Includes(text, s_phong_) /\ idx # 0 /\ idx + 1 <= Len(words)
     THEN words[idx + 1]
     ELSE <<>>

\* the row is one the strategy selected for the question picks
StrategyPicks(v, text, row) ==
  IF v = "groq" /\ AsksForLeaders(text)
  THEN HoldsLeadershipTitle(row)
  ELSE IF v = "groq" /\ DepartmentToken(text) # <<>>
  THEN \E sp \in Spellings :
         Includes(Fold(Cell(row, DepartmentHeader(sp))), DepartmentToken(text))
  ELSE LET joined == toLowerCase(JoinSpace(ObjectValues(row)))
           rowText == IF v = "groq" THEN removeVietnameseTones(joined) ELSE joined
           tokens == SplitWhitespace(text)
       IN \E i \in DOMAIN tokens : Len(tokens[i]) > 1 /\ Includes(rowText, tokens[i])

\* the text searchRows matches against: folded in server.js, lower case in part_000
SearchText(v, message) ==
  IF v = "groq" THEN Fold(message) ELSE toLowerCase(message)

\* the first position of ys, from position j on, that holds x; none: Len(ys) + 1
FirstFrom(ys, j, x) ==
  IF \E k \in j..Len(ys) : ys[k] = x
  THEN CHOOSE k \in j..Len(ys) : ys[k] = x /\ \A m \in j..(k - 1) : ys[m] # x
  ELSE Len(ys) + 1

\* xs[a..b] is matched against ys from position j on, each element at the first
\* position that holds it: the position after the last match; no match:
\* Len(ys) + 2.  The halves are matched one after the other.
RECURSIVE MatchEnd(_, _, _, _, _)
MatchEnd(xs, a, b, ys, j) ==
  IF a > b THEN j
  ELSE IF a = b
  THEN LET k == FirstFrom(ys, j, xs[a])
       IN IF k > Len(ys) THEN Len(ys) + 2 ELSE k + 1
  ELSE LET mid == (a + b) \div 2
           left == MatchEnd(xs, a, mid, ys, j)
       IN IF left > Len(ys) + 1 THEN left ELSE MatchEnd(xs, mid + 1, b, ys, left)

\* xs is ys with some elements left out, the others in their order
IsSubsequence(xs, ys) == MatchEnd(xs, 1, Len(xs), ys, 1) <= Len(ys) + 1

\* C15: for a non-empty row sequence searchRows returns a non-empty result: when
\* the strategy selected for the question picks no row, the result is the first
\* 20 rows of the input.
C15_NeverEmpty ==
  (Searched /\ Len(rowsIn) > 0) =>
    /\ Len(applied.value) > 0
    /\ (\A i \in DOMAIN rowsIn : ~StrategyPicks(variant, SearchText(variant, textIn), rowsIn[i]))
         => applied.value = Slice(rowsIn, FallbackRows)

\* C16: the result of searchRows has at most 500 rows, whichever strategy
\* produced it, and is a subsequence of the input rows in their order.
C16_CappedSubsequence ==
  Searched =>
    /\ Len(applied.value) <= MaxResults
    /\ IsSubsequence(applied.value, rowsIn)

\* C17: for a question whose folded text holds a leadership marker word,
\* searchRows of server.js returns exactly the rows whose title, under any known
\* spelling of the header, holds a leadership word; the result may be empty.
C17_TitleFilterExact ==
  (Searched /\ variant = "groq" /\ AsksForLeaders(Fold(textIn))) =>
    applied.value = SelectSeq(rowsIn, HoldsLeadershipTitle)

\* a head picked out of a table whose title header is not the plain spelling,
\* next to a row that is left out
C17_Witness ==
  /\ Searched
  /\ variant = "groq"
  /\ AsksForLeaders(Fold(textIn))
  /\ Len(applied.value) > 0
  /\ Len(applied.value) < Len(rowsIn)
  /\ ~HasKey(rowsIn[1], H_ChucVu)

Rendered == applied.fn = "context"

\* C18: the rendering of the rows that a /chat request puts into the prompt is
\* built from at most the first 40 rows, and is never longer than the character
\* budget plus the truncation marker.
C18_ContextWithinBudget ==
  Rendered =>
    /\ applied.value = RowsRendering(variant, Slice(rowsIn, ContextRows))
    /\ Len(applied.value) <= MAX_CONTEXT_CHARS + Len(TruncationMarker)

ChoseRowsForFile == applied.fn = "rowsForFile"

\* "nhan su", "nhan vien": the entities a list is asked of
ListEntities == {<<"n", "h", "a", "n", " ", "s", "u">>, <<"n", "h", "a", "n", " ", "v", "i", "e", "n">>}

\* "toan bo", "tat ca", "tong danh sach": all, every, the total list
AllWords == {<<"t", "o", "a", "n", " ", "b", "o">>, <<"t", "a", "t", " ", "c", "a">>, <<"t", "o", "n", "g", " ", "d", "a", "n", "h", " ", "s", "a", "c", "h">>}

\* the text asks for all of the entities in so many words
AsksForAll(text) ==
  \E a \in AllWords, e \in ListEntities : Includes(text, a \o <<" ">> \o e)

\* the text holds the phrase "danh sach <entities>"
AsksForList(text) ==
  \E e \in ListEntities : Includes(text, <<"d", "a", "n", "h", " ", "s", "a", "c", "h">> \o <<" ">> \o e)

\* the qualifier words of a handler: head, deputy, department, employed, resigned
QualifierWords(v) ==
  IF v = "groq"
  THEN {s_truong, s_pho, s_phong_, s_dang_lam, s_nghi}
  ELSE {s_truong_phong, s_phong_, s_dang_lam_viec, s_da_nghi, s_nghi_viec}

Qualified(v, text) == \E w \in QualifierWords(v) : Includes(text, w)

\* C19: the rows handed to the export generator are the whole personnel dataset
\* when the message asks for all employees, and the result of searchRows
\* otherwise; a message asks for all employees when it says all, every or total
\* list, or holds the bare list phrase with no qualifier word, and does not when
\* a qualifier word goes with the bare list phrase.
C19_ExportRows ==
  LET text == Fold(textIn)
      all == AsksForAll(text) \/ (AsksForList(text) /\ ~Qualified(variant, text))
  IN ChoseRowsForFile =>
       applied.value = IF all THEN rowsIn ELSE searchRows(variant, textIn, rowsIn)

\* a list phrase with a qualifier: the file gets the search result, which is not
\* the whole dataset
C19_Witness ==
  /\ ChoseRowsForFile
  /\ variant = "groq"
  /\ AsksForList(Fold(textIn))
  /\ Qualified(variant, Fold(textIn))
  /\ ~AsksForAll(Fold(textIn))
  /\ applied.value # rowsIn

Exported == applied.fn = "csv"

\* A reader of delimited text: fields are separated by commas and records by
\* line breaks; a field that opens with a double quote runs to its closing
\* quote, and two quotes inside it stand for one.
RECURSIVE CsvScan(_, _, _, _, _, _)
CsvScan(text, i, quoted, field, record, records) ==
  IF i > Len(text) THEN Append(records, Append(record, field))
  ELSE LET c == text[i]
       IN IF quoted
          THEN IF c = "\""
               THEN IF i < Len(text) /\ text[i + 1] = "\""
                    THEN CsvScan(text, i + 2, TRUE, Append(field, "\""), record, records)
                    ELSE CsvScan(text, i + 1, FALSE, field, record, records)
               ELSE CsvScan(text, i + 1, TRUE, Append(field, c), record, records)
          ELSE IF c = "\"" /\ field = <<>>
               THEN CsvScan(text, i + 1, TRUE, field, record, records)
          ELSE IF c = ","
               THEN CsvScan(text, i + 1, FALSE, <<>>, Append(record, field), records)
          ELSE IF c = "\n"
               THEN CsvScan(text, i + 1, FALSE, <<>>, <<>>,
                            Append(records, Append(record, field)))
          ELSE CsvScan(text, i + 1, FALSE, Append(field, c), record, records)

CsvRecords(text) == CsvScan(text, 1, FALSE, <<>>, <<>>, <<>>)

\* the rows read from the text: the first record names the columns
CsvParse(text) ==
  LET records == CsvRecords(text)
      header == records[1]
  IN [k \in 1..(Len(records) - 1) |->
        {<<header[j], IF j <= Len(records[k + 1]) THEN records[k + 1][j] ELSE <<>>>> :
           j \in DOMAIN header}]

\* a row as the set of its named cells
NamedCells(row) == {<<HeaderText(row[i][1]), row[i][2]>> : i \in DOMAIN row}

\* C20: for N >= 1 rows that share one column set, reading the text written by
\* rowsToCsv as delimited text (commas, double-quoted fields, doubled inner
\* quotes, first line the header) gives N rows with the same column names and
\* the same field values.
C20_CsvRoundTrip ==
  Exported /\ rowsIn # <<>> =>
    LET parsed == CsvParse(applied.value)
    IN /\ Len(parsed) = Len(rowsIn)
       /\ \A k \in DOMAIN rowsIn : parsed[k] = NamedCells(rowsIn[k])

Sources == {"intro", "hr"}

EmptyEntry == [rows |-> <<>>, loadedAt |-> 0]

\* request r has fetched the dataset src with success
FetchedOk(rec, src) ==
  rec.src = src /\ rec.fetched /\ rec.pc # "fetch" /\ ~rec.fetchFailed

\* the entry holds the rows and the time stamp of one and the same fetch
OfOneFetch(entry, src) ==
  \E r \in Reqs : /\ FetchedOk(req[r], src)
                  /\ entry.rows = req[r].got.rows
                  /\ entry.loadedAt = req[r].t0

\* an entry changes only in the step in which a fetch of its dataset succeeds,
\* and then to the rows and the time stamp of that fetch
WrittenBySuccess(src) ==
  CacheOf(src)' # CacheOf(src) =>
    \E r \in Reqs : /\ req[r].pc = "fetch"
                    /\ FetchedOk(req'[r], src)
                    /\ CacheOf(src)'.rows = req'[r].got.rows
                    /\ CacheOf(src)'.loadedAt = req[r].t0

\* C21: each cache entry is the initial entry or the rows of one successful
\* fetch with the time stamp of that fetch; rows and loadedAt are replaced
\* together, in one step, only when a fetch succeeds.
C21_SnapshotWhole ==
  /\ [](\A src \in Sources : CacheOf(src) = EmptyEntry \/ OfOneFetch(CacheOf(src), src))
  /\ [][\A src \in Sources : WrittenBySuccess(src)]_vars

\* two fetches of the personnel dataset that began at different times have both
\* succeeded, and the entry is the later one's
C21_Witness ==
  /\ hrCache.rows # <<>>
  /\ hrCache.loadedAt > 0
  /\ \E r, q \in Reqs : /\ FetchedOk(req[r], "hr") /\ FetchedOk(req[q], "hr")
                        /\ req[r].t0 < req[q].t0
                        /\ hrCache.loadedAt = req[q].t0

\* C22: if every admitted language-model call finishes in the end, every call
\* waiting in the polling loop is admitted in the end, also while other
\* requests keep arriving.
C22_WaiterAdmitted ==
  (\A r \in Reqs : (req[r].pc \in {"call", "backoff"}) ~> (req[r].pc = "done"))
    => (\A r \in Reqs : (req[r].pc = "gateWait") ~> req[r].admitted)

\* the requests admitted in this step
NewlyAdmitted == {r \in Reqs : ~req[r].admitted /\ req'[r].admitted}

\* the requests whose call finishes in this step, with a reply or an error
NewlyFinished == {r \in InFlight : req'[r].pc = "done"}

\* C23: the in-flight counter is the number of calls admitted and not finished:
\* one up per admitted call, one down when the call finishes, whether it
\* resolves or throws (also after the last retry), never negative, and 0 when
\* no call is in flight.
C23_CounterIsInFlight ==
  /\ [](/\ groqCurrentRunning = Cardinality(InFlight)
        /\ groqCurrentRunning >= 0)
  /\ [][groqCurrentRunning' - groqCurrentRunning
          = Cardinality(NewlyAdmitted) - Cardinality(NewlyFinished)]_vars

\* a call has thrown after its last retry and another has returned a reply,
\* a third is still in flight
C23_Witness ==
  /\ \E r \in Reqs : /\ req[r].pc = "done"
                     /\ req[r].attempts = DefaultRetries + 1
                     /\ req[r].result.kind = "error"
  /\ \E r \in Reqs : req[r].pc = "done" /\ req[r].result.kind = "ok"
  /\ Cardinality(InFlight) = 1
  /\ groqCurrentRunning = 1

\* C24: under any interleaving of overlapping getHrRows (or
\* getCompanyIntroRows) calls the loadedAt of a cache entry never decreases: a
\* fetch that began earlier never replaces the snapshot written by a fetch that
\* began later.
C24_LoadedAtMonotonic ==
  [][\A src \in Sources : CacheOf(src)'.loadedAt >= CacheOf(src).loadedAt]_vars
====
